---- MODULE Spec2Model ----
(***************************************************************************)
(* Portfolio API (src/main.py, src/schemas.py): HTTP handlers over a       *)
(* document store with three collections (project, post, contactmessage).  *)
(*                                                                         *)
(* Encoding of Python values:                                              *)
(*   - a dict / stored document is a function from field names to values;  *)
(*     an absent key is a name outside its DOMAIN;                         *)
(*   - None is the string None (no data value of the model equals it);     *)
(*   - a list is a sequence, a datetime is a string of Times;              *)
(*   - an e-mail address is a sequence of characters, so that its syntax   *)
(*     can be inspected and its domain lower-cased;                        *)
(*   - an ObjectId is a natural number, str(ObjectId) is ToString of it.   *)
(***************************************************************************)
EXTENDS Integers, Sequences, FiniteSets, TLC

VARIABLES
    dbInit,          \* db is not None (the module-level handle of database.py)
    reachable,       \* the store answers (environment)
    project,         \* collection "project": documents in insertion order
    post,            \* collection "post"
    contactmessage,  \* collection "contactmessage"
    nextId,          \* the next ObjectId the store assigns
    req,             \* the last request answered, and whether the store was usable then (history)
    resp,            \* the last response sent (history)
    seedRuns,        \* calls of ensure_seed_data that ran to their end on a usable store, saturating at 2 (history)
    store0,          \* the project and post collections at start-up (history)
    pcs              \* position of each in-flight request of the step-wise specifications

vars == <<dbInit, reachable, project, post, contactmessage, nextId, req, resp, seedRuns, store0, pcs>>

store == <<project, post, contactmessage, nextId>>

----------------------------------------------------------------------------
(* Bounds and program constants *)

MaxContacts == 2

MaxExtraColls == 9

NumProcs == 2

CollCut == 10

ErrCut == 80

None == "<None>"

Times == {"2026-01-01T00:00:00", "2026-01-02T00:00:00"}

----------------------------------------------------------------------------
(* Python helpers *)

\* dict.get(key, default)
Get(d, key, default) == IF key \in DOMAIN d THEN d[key] ELSE default

\* seq[:n]
Take(s, n) == SubSeq(s, 1, IF Len(s) < n THEN Len(s) ELSE n)

\* x in list
Contains(s, x) == \E i \in 1..Len(s) : s[i] = x

\* the documents of s that match the filter, in order: every key of the filter
\* is a field of the document that equals the value or, for the array field
\* tags, holds it as an element
RECURSIVE SelectDocs(_, _)
SelectDocs(s, filt) ==
    IF s = <<>> THEN <<>>
    ELSE LET rest == SelectDocs(Tail(s), filt)
         IN  IF \A k \in DOMAIN filt :
                    /\ k \in DOMAIN Head(s)
                    /\ IF k = "tags" THEN Contains(Head(s)[k], filt[k])
                                     ELSE Head(s)[k] = filt[k]
             THEN <<Head(s)>> \o rest
             ELSE rest

\* the empty dict {}
EmptyDict == [k \in {} |-> None]

Slugs(s) == [i \in 1..Len(s) |-> Get(s[i], "slug", None)]

----------------------------------------------------------------------------
(* Data access layer (database.py) *)

\* str(ObjectId)
IdStr(n) == ToString(n)

\* create_document(collection_name, data): the collection after the insert
\* of data's field map under the identifier id
create_document(coll, data, id) == Append(coll, data @@ ("_id" :> id))

\* get_documents(collection_name, filter, limit=None); limit 0 stands for None
get_documents(coll, filt, limit) ==
    LET found == SelectDocs(coll, filt)
    IN  IF limit = 0 THEN found ELSE Take(found, limit)

\* a direct store query by the string form of an identifier
find_by_id(coll, idstr) == SelectSeq(coll, LAMBDA d : IdStr(d["_id"]) = idstr)

\* the store can serve a call
Usable == dbInit /\ reachable

----------------------------------------------------------------------------
(* Schemas (src/schemas.py) and the seed examples of ensure_seed_data *)

ProjectSchema(title, slug, description, tags, stack, impact, cover_url, github_url, demo_url, featured) ==
    [title |-> title, slug |-> slug, description |-> description, tags |-> tags,
     stack |-> stack, impact |-> impact, cover_url |-> cover_url,
     github_url |-> github_url, demo_url |-> demo_url, case_study |-> None,
     stats |-> <<>>, featured |-> featured]

PostSchema(title, slug, excerpt, content, tags, published_at) ==
    [title |-> title, slug |-> slug, excerpt |-> excerpt, content |-> content,
     tags |-> tags, published_at |-> published_at]

ContactMessageSchema(payload) ==
    [name |-> payload["name"], email |-> payload["email"], message |-> payload["message"]]

examples ==
    << ProjectSchema("Real-time Vector Search Service", "vector-search",
                     "Low-latency vector DB layer with HNSW + PQ, tuned for p95 < 20ms.",
                     <<"AI", "Infra">>, <<"Rust", "gRPC", "ANN", "Redis", "Docker">>,
                     "p95 latency -38% at 10k QPS", "/covers/vector.jpg",
                     "https://github.com/example/vector-search", None, TRUE),
       ProjectSchema("LLM-Assisted Code Review Bot", "code-review-bot",
                     "Context-aware PR reviewer with inline suggestions and risk flags.",
                     <<"AI", "Open Source", "Web">>, <<"Python", "FastAPI", "OpenAI", "Postgres">>,
                     "review time -45% across 120+ PRs", "/covers/bot.jpg",
                     "https://github.com/example/code-review-bot", None, FALSE),
       ProjectSchema("Telemetry Pipeline for Edge Devices", "edge-telemetry",
                     "Exactly-once ingestion with Kafka + Flink; real-time dashboards.",
                     <<"Infra", "Data">>, <<"Kafka", "Flink", "Debezium", "ClickHouse">>,
                     "throughput x3.2, data loss ~0%", "/covers/telemetry.jpg",
                     None, None, FALSE) >>

posts(now) ==
    << PostSchema("Notes on low-latency systems", "low-latency-notes",
                  "What actually moves p95 and p99 in real systems.",
                  "# Low-latency notes / A practical list of levers that matter.",
                  <<"systems", "perf">>, now) >>

----------------------------------------------------------------------------
(* Request validation: ContactRequest (name: str, email: EmailStr, message: str) *)

Letters == {"j", "e", "c", "E"}

\* str.lower() on one character
Lower(c) == IF c = "E" THEN "e" ELSE c

\* positions of "@" in an address
AtPositions(e) == {i \in 1..Len(e) : e[i] = "@"}

\* a dot-atom: letters and "-" separated by single dots, no dot at either end
DotAtom(s) ==
    /\ Len(s) > 0
    /\ \A i \in 1..Len(s) : s[i] \in Letters \cup {"-", "."}
    /\ s[1] # "." /\ s[Len(s)] # "."
    /\ \A i \in 1..(Len(s) - 1) : ~(s[i] = "." /\ s[i + 1] = ".")

\* a check that only looks for an "@"
EmailSyntaxOk_AtOnly(e) == Cardinality(AtPositions(e)) >= 1

\* EmailStr accepts local@domain with a dot-atom on each side and a dotted domain
EmailSyntaxOk(e) ==
    /\ Cardinality(AtPositions(e)) = 1
    /\ LET at == CHOOSE i \in AtPositions(e) : TRUE
       IN  /\ DotAtom(SubSeq(e, 1, at - 1))
           /\ DotAtom(SubSeq(e, at + 1, Len(e)))
           /\ Contains(SubSeq(e, at + 1, Len(e)), ".")

\* the value EmailStr hands on: the local part as given, "@" and the domain lower-cased
EmailStr(e) ==
    LET at == CHOOSE i \in AtPositions(e) : TRUE
    IN  [i \in 1..Len(e) |-> IF i < at THEN e[i] ELSE Lower(e[i])]

ContactFields == {"name", "email", "message"}

\* the body passes ContactRequest's validation
ContactRequestValid(body) ==
    /\ ContactFields \subseteq DOMAIN body
    /\ EmailSyntaxOk(body["email"])

\* the validated model: payload.dict()
ContactRequest(body) ==
    [name |-> body["name"], email |-> EmailStr(body["email"]), message |-> body["message"]]

----------------------------------------------------------------------------
(* Response shapes (ProjectResponse, PostResponse) and their construction *)

\* the featured default inverted
ProjectResponse_FeaturedTrue(p) ==
    [title |-> Get(p, "title", None), slug |-> Get(p, "slug", None),
     description |-> Get(p, "description", None),
     tags |-> Get(p, "tags", <<>>), stack |-> Get(p, "stack", <<>>),
     impact |-> Get(p, "impact", None), cover_url |-> Get(p, "cover_url", None),
     github_url |-> Get(p, "github_url", None), demo_url |-> Get(p, "demo_url", None),
     featured |-> Get(p, "featured", TRUE)]

\* ProjectResponse(title=p.get("title"), ..., featured=p.get("featured", False))
ProjectResponse(p) ==
    [title |-> Get(p, "title", None), slug |-> Get(p, "slug", None),
     description |-> Get(p, "description", None),
     tags |-> Get(p, "tags", <<>>), stack |-> Get(p, "stack", <<>>),
     impact |-> Get(p, "impact", None), cover_url |-> Get(p, "cover_url", None),
     github_url |-> Get(p, "github_url", None), demo_url |-> Get(p, "demo_url", None),
     featured |-> Get(p, "featured", FALSE)]

\* title, slug and description are declared str: None fails the model's validation
ProjectResponseValid(r) == r.title # None /\ r.slug # None /\ r.description # None

\* PostResponse(**{"title": po.get("title"), ..., "published_at": po.get("published_at")})
PostResponse(po) ==
    [title |-> Get(po, "title", None), slug |-> Get(po, "slug", None),
     excerpt |-> Get(po, "excerpt", None), content |-> Get(po, "content", None),
     tags |-> Get(po, "tags", <<>>), published_at |-> Get(po, "published_at", None)]

\* title, slug and content are declared str
PostResponseValid(r) == r.title # None /\ r.slug # None /\ r.content # None

\* an error that reaches the framework: 500
ServerError == [status |-> 500, body |-> "Internal Server Error"]

\* HTTPException(status_code=404, detail=...)
NotFound(detail) == [status |-> 404, body |-> [detail |-> detail]]

\* FastAPI's answer to a body that fails validation
ValidationError == [status |-> 422, body |-> "validation error"]

Ok(body) == [status |-> 200, body |-> body]

----------------------------------------------------------------------------
(* Seed routine: ensure_seed_data *)

RECURSIVE InsertAll(_, _, _)
\* for p in examples: create_document(collection, p)
InsertAll(coll, docs, id) ==
    IF docs = <<>> THEN coll
    ELSE InsertAll(create_document(coll, Head(docs), id), Tail(docs), id + 1)

\* the seed without its emptiness check
SeedProjects_Unchecked(coll, id) == InsertAll(coll, examples, id)

\* if db.project.count_documents({}) == 0: insert the examples
SeedProjects(coll, id) ==
    IF Len(coll) = 0 THEN InsertAll(coll, examples, id) ELSE coll

\* if db.post.count_documents({}) == 0: insert the posts
SeedPosts(coll, now, id) ==
    IF Len(coll) = 0 THEN InsertAll(coll, posts(now), id) ELSE coll

\* the store after ensure_seed_data() ran to its end at time now
ensure_seed_data(now) ==
    IF ~dbInit
    THEN [project |-> project, post |-> post, nextId |-> nextId]
    ELSE LET p   == SeedProjects(project, nextId)
             id2 == nextId + (Len(p) - Len(project))
             po  == SeedPosts(post, now, id2)
         IN  [project |-> p, post |-> po, nextId |-> id2 + (Len(po) - Len(post))]

----------------------------------------------------------------------------
(* Route handlers: what each computes from the collection it reads *)

\* the tag ignored
ListFilter_Ignored(tag) == EmptyDict

\* filt = {"tags": tag} if tag else {}
ListFilter(tag) == IF tag # None /\ tag # "" THEN ("tags" :> tag) ELSE EmptyDict

\* list_projects, after the seed check
ListProjectsResponse(coll, tag) ==
    LET docs == get_documents(coll, ListFilter(tag), 0)
        out  == [i \in 1..Len(docs) |-> ProjectResponse(docs[i])]
    IN  IF \A i \in 1..Len(out) : ProjectResponseValid(out[i]) THEN Ok(out) ELSE ServerError

\* the lookup without its slug filter
GetProjectResponse_Unfiltered(coll, slug) ==
    LET docs == get_documents(coll, EmptyDict, 1)
    IN  IF docs = <<>> THEN NotFound("Project not found") ELSE Ok(ProjectResponse(docs[1]))

\* get_project, after the seed check
GetProjectResponse(coll, slug) ==
    LET docs == get_documents(coll, ("slug" :> slug), 1)
    IN  IF docs = <<>> THEN NotFound("Project not found")
        ELSE IF ProjectResponseValid(ProjectResponse(docs[1]))
             THEN Ok(ProjectResponse(docs[1])) ELSE ServerError

\* list_posts, after the seed check
ListPostsResponse(coll, tag) ==
    LET docs == get_documents(coll, ListFilter(tag), 0)
        out  == [i \in 1..Len(docs) |-> PostResponse(docs[i])]
    IN  IF \A i \in 1..Len(out) : PostResponseValid(out[i]) THEN Ok(out) ELSE ServerError

\* get_post, after the seed check
GetPostResponse(coll, slug) ==
    LET docs == get_documents(coll, ("slug" :> slug), 1)
    IN  IF docs = <<>> THEN NotFound("Post not found")
        ELSE IF PostResponseValid(PostResponse(docs[1]))
             THEN Ok(PostResponse(docs[1])) ELSE ServerError

\* db.list_collection_names(): the collections that hold documents, and the
\* extra collections other clients created in the same database
list_collection_names(extra) ==
    (IF Len(project) > 0 THEN <<"project">> ELSE <<>>)
    \o (IF Len(post) > 0 THEN <<"post">> ELSE <<>>)
    \o (IF Len(contactmessage) > 0 THEN <<"contactmessage">> ELSE <<>>)
    \o [i \in 1..extra |-> ToString(i)]

\* the success report written before list_collection_names is tried
TestDatabaseResponse_EarlyReport(urlSet, extra, err) ==
    LET response == [backend |-> "Running", database |-> <<"Not Available", <<>> >>,
                     database_url |-> None, database_name |-> None,
                     connection_status |-> "Not Connected", collections |-> <<>>]
    IN  IF dbInit
        THEN LET r1 == [response EXCEPT !.database = <<"Connected & Working", <<>> >>,
                                        !.database_url = IF urlSet THEN "Set" ELSE "Not Set",
                                        !.database_name = "portfolio",
                                        !.connection_status = "Connected"]
             IN  IF reachable
                 THEN [r1 EXCEPT !.collections = Take(list_collection_names(extra), CollCut)]
                 ELSE r1
        ELSE [response EXCEPT !.database = <<"Available but not initialized", <<>> >>]

\* the payload of GET /test; the database field is <<label, detail>>
TestDatabaseResponse(urlSet, extra, err) ==
    LET response == [backend |-> "Running", database |-> <<"Not Available", <<>> >>,
                     database_url |-> None, database_name |-> None,
                     connection_status |-> "Not Connected", collections |-> <<>>]
    IN  IF dbInit
        THEN LET r1 == [response EXCEPT !.database = <<"Available", <<>> >>,
                                        !.database_url = IF urlSet THEN "Set" ELSE "Not Set",
                                        !.database_name = "portfolio",
                                        !.connection_status = "Connected"]
             IN  IF reachable
                 THEN [r1 EXCEPT !.collections = Take(list_collection_names(extra), CollCut),
                                 !.database = <<"Connected & Working", <<>> >>]
                 ELSE [r1 EXCEPT !.database = <<"Connected but Error: ", Take(err, ErrCut)>>]
        ELSE [response EXCEPT !.database = <<"Available but not initialized", <<>> >>]

----------------------------------------------------------------------------
(* Inputs *)

Procs == 1..NumProcs

\* the tag query parameter; None when omitted
Tags == {None, "", "AI", "ai", "A", "systems"}

\* the slug path parameter
SlugInputs == {"vector-search", "Vector-Search", "low-latency-notes", "legacy", "missing"}

Emails ==
    { <<"j", "@", "e", ".", "c">>,            \* well-formed
      <<"j", "@", "E", ".", "c">>,            \* well-formed, upper case in the domain
      <<"E", "@", "e", ".", "c">>,            \* well-formed, upper case in the local part
      <<"j", "-", "e">>,                      \* no "@"
      <<"j", "@", "e">>,                      \* no dot in the domain
      <<"@", "e", ".", "c">>,                 \* empty local part
      <<"j", "@">>,                           \* empty domain
      <<"j", "@", "@", "e", ".", "c">>,       \* two "@"
      <<"j", "@", "e", ".", ".", "c">>,       \* empty label
      <<"j", "@", ".", "c">>,                 \* domain starts with a dot
      <<"j", " ", "@", "e", ".", "c">> }      \* a space

FullBodies == {[name |-> "Jane", email |-> e, message |-> "hi"] : e \in Emails}

\* JSON bodies: all three fields with any of the addresses, or a body that
\* lacks some of the fields
Bodies ==
    FullBodies \cup
    {[k \in D |-> [name |-> "Jane", email |-> <<"j", "@", "e", ".", "c">>, message |-> "hi"][k]] :
        D \in SUBSET ContactFields}

\* str(e) of the exception list_collection_names raises
ErrMsgs == {[i \in 1..n |-> "x"] : n \in {0, ErrCut, ErrCut + 1}}

OptionalProjectFields == {"tags", "stack", "impact", "cover_url", "github_url", "demo_url", "featured"}

\* a project document written by another client of the store, holding the
\* fields of S besides title, slug and description
LegacyProject(S) ==
    LET full == [title |-> "Legacy", slug |-> "legacy", description |-> "An older record",
                 tags |-> <<"Web", "Ops">>, stack |-> <<"Go">>, impact |-> "cost -10%",
                 cover_url |-> "/covers/legacy.jpg", github_url |-> "https://github.com/example/legacy",
                 demo_url |-> "https://legacy.example", featured |-> TRUE, _id |-> 1]
    IN  [k \in {"_id", "title", "slug", "description"} \cup S |-> full[k]]

LegacyPost ==
    [title |-> "Hello", slug |-> "hello", content |-> "First post", tags |-> <<"systems">>, _id |-> 2]

Idle == [at |-> "idle", kind |-> "none", arg |-> None, i |-> 0]

----------------------------------------------------------------------------
(* Initial states *)

InitWith(projects, postss) ==
    /\ dbInit \in BOOLEAN
    /\ reachable = TRUE
    /\ project \in (IF dbInit THEN projects ELSE {<<>>})
    /\ post \in (IF dbInit THEN postss ELSE {<<>>})
    /\ contactmessage = <<>>
    /\ nextId = 3
    /\ req = [kind |-> "none", arg |-> None, usable |-> FALSE]
    /\ resp = [status |-> 0, body |-> None]
    /\ seedRuns = 0
    /\ store0 = [project |-> project, post |-> post]
    /\ pcs = [p \in Procs |-> Idle]

\* a fresh or an already populated store
Init ==
    InitWith({<<>>, <<LegacyProject({"tags", "impact"})>>}, {<<>>, <<LegacyPost>>})

----------------------------------------------------------------------------
(* Requests handled from start to end *)

ReadKinds == {"list_projects", "get_project", "list_posts", "get_post"}

Bump(n) == IF n < 2 THEN n + 1 ELSE n

\* a handler that starts with ensure_seed_data() and then answers r, computed
\* from the seeded store: a store call that raises, in the seed check (store
\* unreachable) or in get_documents (no handle), ends the request with a 500
AfterSeed(now, r) ==
    IF dbInit /\ ~reachable
    THEN [project |-> project, post |-> post, contactmessage |-> contactmessage,
          nextId |-> nextId, resp |-> ServerError]
    ELSE LET s == ensure_seed_data(now)
         IN  [project |-> s.project, post |-> s.post, contactmessage |-> contactmessage,
              nextId |-> s.nextId, resp |-> IF dbInit THEN r ELSE ServerError]

list_projects(tag, now) ==
    AfterSeed(now, ListProjectsResponse(ensure_seed_data(now).project, tag))

get_project(slug, now) ==
    AfterSeed(now, GetProjectResponse(ensure_seed_data(now).project, slug))

list_posts(tag, now) ==
    AfterSeed(now, ListPostsResponse(ensure_seed_data(now).post, tag))

get_post(slug, now) ==
    AfterSeed(now, GetPostResponse(ensure_seed_data(now).post, slug))

\* submit_contact writing to the wrong collection
submit_contact_WrongCollection(body) ==
    LET same == [project |-> project, post |-> post, contactmessage |-> contactmessage,
                 nextId |-> nextId]
    IN  IF ~ContactRequestValid(body) THEN same @@ ("resp" :> ValidationError)
        ELSE IF ~Usable THEN same @@ ("resp" :> ServerError)
        ELSE LET doc == ContactMessageSchema(ContactRequest(body))
             IN  [project |-> project, post |-> create_document(post, doc, nextId),
                  contactmessage |-> contactmessage,
                  nextId |-> nextId + 1,
                  resp |-> Ok([status |-> "ok", id |-> IdStr(nextId)])]

\* submit_contact running the seed check first, as the read handlers do
submit_contact_Seeding(body) ==
    IF ~ContactRequestValid(body) \/ ~Usable
    THEN [project |-> project, post |-> post, contactmessage |-> contactmessage,
          nextId |-> nextId,
          resp |-> IF ~ContactRequestValid(body) THEN ValidationError ELSE ServerError]
    ELSE LET s   == ensure_seed_data(CHOOSE t \in Times : TRUE)
             doc == ContactMessageSchema(ContactRequest(body))
         IN  [project |-> s.project, post |-> s.post,
              contactmessage |-> create_document(contactmessage, doc, s.nextId),
              nextId |-> s.nextId + 1,
              resp |-> Ok([status |-> "ok", id |-> IdStr(s.nextId)])]

\* submit_contact: validation of the body, then one create_document
submit_contact(body) ==
    LET same == [project |-> project, post |-> post, contactmessage |-> contactmessage,
                 nextId |-> nextId]
    IN  IF ~ContactRequestValid(body) THEN same @@ ("resp" :> ValidationError)
        ELSE IF ~Usable THEN same @@ ("resp" :> ServerError)
        ELSE LET doc == ContactMessageSchema(ContactRequest(body))
             IN  [project |-> project, post |-> post,
                  contactmessage |-> create_document(contactmessage, doc, nextId),
                  nextId |-> nextId + 1,
                  resp |-> Ok([status |-> "ok", id |-> IdStr(nextId)])]

\* read_root and test_database touch no collection
read_root ==
    [project |-> project, post |-> post, contactmessage |-> contactmessage, nextId |-> nextId,
     resp |-> Ok([message |-> "Arnav Portfolio API running"])]

test_database(urlSet, extra, err) ==
    [project |-> project, post |-> post, contactmessage |-> contactmessage, nextId |-> nextId,
     resp |-> Ok(TestDatabaseResponse(urlSet, extra, err))]

\* the request kind(arg) is served with outcome out
Serve(kind, arg, out) ==
    /\ \A p \in Procs : pcs[p].at = "idle"
    /\ Len(out.contactmessage) <= MaxContacts
    /\ req' = [kind |-> kind, arg |-> arg, usable |-> Usable]
    /\ resp' = out.resp
    /\ project' = out.project
    /\ post' = out.post
    /\ contactmessage' = out.contactmessage
    /\ nextId' = out.nextId
    /\ seedRuns' = IF kind \in ReadKinds /\ Usable THEN Bump(seedRuns) ELSE seedRuns
    /\ UNCHANGED <<dbInit, reachable, store0, pcs>>

ReadRoot == Serve("read_root", None, read_root)

\* list_collection_names either answers (with any number of extra collections) or raises
TestDatabase ==
    \E urlSet \in BOOLEAN :
        \E extra \in (IF reachable THEN 0..MaxExtraColls ELSE {0}) :
            \E err \in (IF reachable THEN {<<>>} ELSE ErrMsgs) :
                Serve("test_database", [extra |-> extra, err |-> err],
                      test_database(urlSet, extra, err))

\* datetime.utcnow() is read only when the post collection is seeded
Clock == IF Usable /\ post = <<>> THEN Times ELSE {CHOOSE t \in Times : TRUE}

ListProjects == \E tag \in Tags, now \in Clock : Serve("list_projects", tag, list_projects(tag, now))

GetProject == \E slug \in SlugInputs, now \in Clock : Serve("get_project", slug, get_project(slug, now))

ListPosts == \E tag \in Tags, now \in Clock : Serve("list_posts", tag, list_posts(tag, now))

GetPost == \E slug \in SlugInputs, now \in Clock : Serve("get_post", slug, get_post(slug, now))

SubmitContact == \E body \in Bodies : Serve("submit_contact", body, submit_contact(body))

\* the store becomes unreachable, or reachable again
StoreFlips ==
    /\ reachable' = ~reachable
    /\ UNCHANGED <<dbInit, project, post, contactmessage, nextId, req, resp, seedRuns, store0, pcs>>

Next ==
    \/ ReadRoot
    \/ TestDatabase
    \/ ListProjects
    \/ GetProject
    \/ ListPosts
    \/ GetPost
    \/ SubmitContact
    \/ StoreFlips

Spec == Init /\ [][Next]_vars

----------------------------------------------------------------------------
(* Stored project records that lack optional fields *)

InitDrift ==
    /\ InitWith({<<LegacyProject(S)>> : S \in SUBSET OptionalProjectFields}, {<<>>, <<LegacyPost>>})
    /\ dbInit

NextDrift ==
    \/ ListProjects
    \/ GetProject

SpecDrift == InitDrift /\ [][NextDrift]_vars

----------------------------------------------------------------------------
(* Requests in flight together: every store call (count_documents, insert,   *)
(* find) is one step, and a request is at one position of its handler.       *)

\* the requests of the step-wise specifications
StepRequests == {<<"list_projects", None>>, <<"get_post", "low-latency-notes">>}

Quiescent == \A p \in Procs : pcs[p].at = "idle"

Goto(p, at, i) == pcs' = [pcs EXCEPT ![p] = [@ EXCEPT !.at = at, !.i = i]]

\* a request arrives: the handler calls ensure_seed_data(), db is not None
Start(p) ==
    /\ pcs[p].at = "idle"
    /\ dbInit
    /\ \E r \in StepRequests :
          pcs' = [pcs EXCEPT ![p] = [at |-> "count_project", kind |-> r[1], arg |-> r[2], i |-> 0]]
    /\ UNCHANGED <<dbInit, reachable, project, post, contactmessage, nextId, req, resp, seedRuns, store0>>

\* db.project.count_documents({}) == 0
CountProject(p) ==
    /\ pcs[p].at = "count_project"
    /\ IF Len(project) = 0 THEN Goto(p, "insert_project", 1) ELSE Goto(p, "count_post", 0)
    /\ UNCHANGED <<dbInit, reachable, project, post, contactmessage, nextId, req, resp, seedRuns, store0>>

\* create_document("project", p) for the next of the examples
InsertProject(p) ==
    /\ pcs[p].at = "insert_project"
    /\ project' = create_document(project, examples[pcs[p].i], nextId)
    /\ nextId' = nextId + 1
    /\ IF pcs[p].i < Len(examples) THEN Goto(p, "insert_project", pcs[p].i + 1)
                                   ELSE Goto(p, "count_post", 0)
    /\ UNCHANGED <<dbInit, reachable, post, contactmessage, req, resp, seedRuns, store0>>

\* db.post.count_documents({}) == 0
CountPost(p) ==
    /\ pcs[p].at = "count_post"
    /\ IF Len(post) = 0 THEN Goto(p, "insert_post", 1) ELSE Goto(p, "find", 0)
    /\ seedRuns' = IF Len(post) = 0 THEN seedRuns ELSE Bump(seedRuns)
    /\ UNCHANGED <<dbInit, reachable, project, post, contactmessage, nextId, req, resp, store0>>

\* create_document("post", post) for the one post
InsertPost(p) ==
    /\ pcs[p].at = "insert_post"
    /\ \E now \in Times : post' = create_document(post, posts(now)[pcs[p].i], nextId)
    /\ nextId' = nextId + 1
    /\ Goto(p, "find", 0)
    /\ seedRuns' = Bump(seedRuns)
    /\ UNCHANGED <<dbInit, reachable, project, contactmessage, req, resp, store0>>

\* get_documents(...) and the response
Find(p) ==
    /\ pcs[p].at = "find"
    /\ req' = [kind |-> pcs[p].kind, arg |-> pcs[p].arg, usable |-> TRUE]
    /\ resp' = IF pcs[p].kind = "list_projects"
               THEN ListProjectsResponse(project, pcs[p].arg)
               ELSE GetPostResponse(post, pcs[p].arg)
    /\ pcs' = [pcs EXCEPT ![p] = Idle]
    /\ UNCHANGED <<dbInit, reachable, project, post, contactmessage, nextId, seedRuns, store0>>

\* the store call the request is about to make raises: the error leaves the
\* handler and the request ends with a 500
Fail(p) ==
    /\ pcs[p].at \in {"count_project", "insert_project", "count_post", "insert_post", "find"}
    /\ req' = [kind |-> pcs[p].kind, arg |-> pcs[p].arg, usable |-> FALSE]
    /\ resp' = ServerError
    /\ pcs' = [pcs EXCEPT ![p] = Idle]
    /\ UNCHANGED <<dbInit, reachable, project, post, contactmessage, nextId, seedRuns, store0>>

\* a fresh deployment: the handle is set and every collection is empty
InitEmpty ==
    /\ InitWith({<<>>}, {<<>>})
    /\ dbInit

NextConc ==
    \E p \in Procs :
        \/ Start(p)
        \/ CountProject(p)
        \/ InsertProject(p)
        \/ CountPost(p)
        \/ InsertPost(p)
        \/ Find(p)

SpecConc == InitEmpty /\ [][NextConc]_vars

NextFail ==
    \E p \in Procs :
        \/ Start(p)
        \/ CountProject(p)
        \/ InsertProject(p)
        \/ CountPost(p)
        \/ InsertPost(p)
        \/ Find(p)
        \/ Fail(p)

SpecFail == InitEmpty /\ [][NextFail]_vars

----------------------------------------------------------------------------
(* Properties *)

SeedSlugs == <<"vector-search", "code-review-bot", "edge-telemetry">>

PostSeedSlugs == <<"low-latency-notes">>

WithoutId(d) == [k \in DOMAIN d \ {"_id"} |-> d[k]]

IsPrefix(a, b) == Len(a) <= Len(b) /\ SubSeq(b, 1, Len(a)) = a

HasTag(d, x) == "tags" \in DOMAIN d /\ \E i \in 1..Len(d["tags"]) : d["tags"][i] = x

HasSlug(coll, x) == \E i \in 1..Len(coll) : "slug" \in DOMAIN coll[i] /\ coll[i]["slug"] = x

Occurrences(coll, x) == Cardinality({i \in 1..Len(coll) : coll[i]["slug"] = x})

\* C1: ensure_seed_data is idempotent on a usable store, one call after the
\* other: once it has run (once or more often), a collection that was empty
\* at start-up holds exactly the fixed examples (projects vector-search,
\* code-review-bot, edge-telemetry; post low-latency-notes), each once, and a
\* collection that held documents is as it was: no call after the first, and
\* no call on a nonempty collection, inserts anything.
C1_SeedIdempotent ==
    seedRuns >= 1 =>
        /\ IF store0.project = <<>>
           THEN /\ Slugs(project) = SeedSlugs
                /\ [i \in 1..Len(project) |-> WithoutId(project[i])] = examples
           ELSE project = store0.project
        /\ IF store0.post = <<>>
           THEN /\ Slugs(post) = PostSeedSlugs
                /\ \E t \in Times : [i \in 1..Len(post) |-> WithoutId(post[i])] = posts(t)
           ELSE post = store0.post

\* C1 witness: the seed routine ran at least twice on a store that started empty
C1_Witness ==
    /\ seedRuns = 2
    /\ store0.project = <<>> /\ store0.post = <<>>
    /\ Slugs(project) = SeedSlugs /\ Slugs(post) = PostSeedSlugs

\* the stored records of coll a tag request must return: all of them when the
\* tag is omitted, else those whose tags list holds the tag as an element
Tagged(coll, tag) ==
    IF tag = None THEN coll ELSE SelectSeq(coll, LAMBDA d : HasTag(d, tag))

\* the same, with the empty tag treated as an omitted one
TaggedOrAll(coll, tag) ==
    IF tag = None \/ tag = "" THEN coll ELSE SelectSeq(coll, LAMBDA d : HasTag(d, tag))

\* C2 as stated: for every string X given as tag, GET /api/projects and
\* GET /api/posts return exactly the stored records whose tags list holds X
\* (exact, case-sensitive); with tag omitted they return every record.
C2_TagFilterAnyString ==
    /\ (req.kind = "list_projects" /\ resp.status = 200) =>
           Slugs(resp.body) = Slugs(Tagged(project, req.arg))
    /\ (req.kind = "list_posts" /\ resp.status = 200) =>
           Slugs(resp.body) = Slugs(Tagged(post, req.arg))

\* C2 amended: for every non-empty string X given as tag the two list
\* endpoints return exactly the stored records whose tags list holds X as an
\* exact, case-sensitive element; with tag omitted or empty they return every
\* record of the collection.
C2_TagFilter ==
    /\ (req.kind = "list_projects" /\ resp.status = 200) =>
           Slugs(resp.body) = Slugs(TaggedOrAll(project, req.arg))
    /\ (req.kind = "list_posts" /\ resp.status = 200) =>
           Slugs(resp.body) = Slugs(TaggedOrAll(post, req.arg))

\* C2 witness: tag=AI on the seeded projects selects two of the three
C2_Witness ==
    /\ req.kind = "list_projects" /\ req.arg = "AI" /\ resp.status = 200
    /\ Slugs(project) = SeedSlugs
    /\ Slugs(resp.body) = <<"vector-search", "code-review-bot">>

\* C3: on a usable store GET /api/projects/{slug} answers 404 with detail
\* "Project not found" exactly when, after the seed check, no project record
\* has that slug, and otherwise answers one record with that slug;
\* GET /api/posts/{slug} does the same over post with "Post not found".
C3_NotFoundIffNoRecord ==
    /\ (req.kind = "get_project" /\ req.usable) =>
           IF HasSlug(project, req.arg)
           THEN resp.status = 200 /\ resp.body.slug = req.arg
           ELSE resp.status = 404 /\ resp.body.detail = "Project not found"
    /\ (req.kind = "get_post" /\ req.usable) =>
           IF HasSlug(post, req.arg)
           THEN resp.status = 200 /\ resp.body.slug = req.arg
           ELSE resp.status = 404 /\ resp.body.detail = "Post not found"

\* C3 witness: a slug no seeded project has is answered 404
C3_Witness ==
    /\ req.kind = "get_project" /\ req.arg = "Vector-Search"
    /\ Slugs(project) = SeedSlugs
    /\ resp.status = 404

\* the addresses of Emails that are not well-formed
MalformedEmails ==
    { <<"j", "-", "e">>, <<"j", "@", "e">>, <<"@", "e", ".", "c">>, <<"j", "@">>,
      <<"j", "@", "@", "e", ".", "c">>, <<"j", "@", "e", ".", ".", "c">>,
      <<"j", "@", ".", "c">>, <<"j", " ", "@", "e", ".", "c">> }

BadBody(b) ==
    \/ ~({"name", "email", "message"} \subseteq DOMAIN b)
    \/ b["email"] \in MalformedEmails

\* C4: a POST /api/contact whose body lacks name, email or message, or whose
\* email is malformed, is answered with a validation error and changes no
\* collection and assigns no identifier: create_document is not called.
C4_InvalidContactRejected ==
    [][(req'.kind = "submit_contact" /\ BadBody(req'.arg)) =>
           (resp'.status = 422 /\ store' = store)]_vars

\* C4 witness: a body with a malformed address was rejected while messages are stored
C4_Witness ==
    /\ req.kind = "submit_contact"
    /\ DOMAIN req.arg = {"name", "email", "message"}
    /\ req.arg["email"] = <<"j", "-", "e">>
    /\ resp.status = 422
    /\ Len(contactmessage) = 1

\* the record a successful submission is answered with: the one the store
\* holds under the returned identifier
Submitted == find_by_id(contactmessage, resp.body.id)

DistinctIds(coll) ==
    \A i, j \in 1..Len(coll) : i # j => (coll[i]["_id"] # coll[j]["_id"] /\ coll[i] # coll[j])

\* C5 as stated: a valid POST /api/contact inserts exactly one record that
\* carries the submitted name, email and message, and returns status ok with
\* the non-empty identifier under which a store lookup finds that record;
\* successful submissions yield distinct records and identifiers.
C5_ContactStoredAsSubmitted ==
    (req.kind = "submit_contact" /\ resp.status = 200) =>
        /\ resp.body.status = "ok" /\ resp.body.id # ""
        /\ Len(Submitted) = 1
        /\ Submitted[1]["name"] = req.arg["name"]
        /\ Submitted[1]["email"] = req.arg["email"]
        /\ Submitted[1]["message"] = req.arg["message"]
        /\ DistinctIds(contactmessage)

\* the address with the part from "@" on lower-cased
DomainLowered(e) ==
    [i \in 1..Len(e) |->
        IF (\E k \in 1..i : e[k] = "@") /\ e[i] = "E" THEN "e" ELSE e[i]]

\* C5 amended: a valid POST /api/contact inserts exactly one record, which
\* carries the submitted name and message and the submitted email with its
\* domain part lower-cased (the validated form of the address), and returns
\* status ok with the non-empty identifier under which a store lookup finds
\* that record; successful submissions yield distinct records and identifiers.
C5_ContactStored ==
    /\ [](  (req.kind = "submit_contact" /\ resp.status = 200) =>
              /\ resp.body.status = "ok" /\ resp.body.id # ""
              /\ Len(Submitted) = 1
              /\ Submitted[1] = contactmessage[Len(contactmessage)]
              /\ DOMAIN Submitted[1] = {"_id", "name", "email", "message"}
              /\ Submitted[1]["name"] = req.arg["name"]
              /\ Submitted[1]["email"] = DomainLowered(req.arg["email"])
              /\ Submitted[1]["message"] = req.arg["message"]
              /\ DistinctIds(contactmessage) )
    /\ [][(req'.kind = "submit_contact" /\ resp'.status = 200 /\ <<req, resp, store>>' # <<req, resp, store>>) =>
              /\ Len(contactmessage') = Len(contactmessage) + 1
              /\ IsPrefix(contactmessage, contactmessage')]_vars

\* C5 witness: the second successful submission, of an address with an
\* upper-case domain, answered with the identifier of the second record
C5_Witness ==
    /\ req.kind = "submit_contact" /\ resp.status = 200
    /\ req.arg["email"] = <<"j", "@", "E", ".", "c">>
    /\ Len(contactmessage) = 2
    /\ resp.body.id = IdStr(contactmessage[2]["_id"])
    /\ contactmessage[1]["_id"] # contactmessage[2]["_id"]

\* C6: GET /test always answers with its payload, whatever the state of the
\* store; when the store is not usable (no handle, or list_collection_names
\* fails) the database field is a warning string, never "Connected &
\* Working", and the collections field holds at most 10 names.
C6_TestNeverFails ==
    req.kind = "test_database" =>
        /\ resp.status = 200
        /\ Len(resp.body.collections) <= 10
        /\ Len(resp.body.database[2]) <= 80
        /\ IF req.usable
           THEN resp.body.database[1] = "Connected & Working"
           ELSE /\ resp.body.database[1] \in
                      {"Available but not initialized", "Connected but Error: "}
                /\ resp.body.collections = <<>>

\* C6 witness: the handle is set, list_collection_names raised a long error
C6_Witness ==
    /\ req.kind = "test_database" /\ ~req.usable /\ dbInit
    /\ Len(req.arg.err) > 80
    /\ resp.body.database[1] = "Connected but Error: "

\* the value a response must show for an optional field the record lacks
DefaultOf(f) ==
    CASE f = "featured" -> FALSE
      [] f \in {"tags", "stack"} -> <<>>
      [] OTHER -> None

\* the response r shows record d: stored values where present, defaults elsewhere
Normalized(d, r) ==
    /\ r.title = d["title"] /\ r.slug = d["slug"] /\ r.description = d["description"]
    /\ \A f \in {"tags", "stack", "impact", "cover_url", "github_url", "demo_url", "featured"} :
          r[f] = IF f \in DOMAIN d THEN d[f] ELSE DefaultOf(f)

\* C7: for a stored project record with title, slug and description that
\* lacks any subset of the optional fields, the list and the detail endpoint
\* answer with a response, not an error, that shows false for a missing
\* featured, empty lists for missing tags and stack, null for missing impact,
\* cover_url, github_url and demo_url, and the stored value of every field
\* the record has.
C7_DefaultsFilled ==
    /\ (req.kind = "list_projects" /\ req.usable) =>
          /\ resp.status = 200
          /\ LET sel == TaggedOrAll(project, req.arg)
             IN  /\ Len(resp.body) = Len(sel)
                 /\ \A i \in 1..Len(sel) : Normalized(sel[i], resp.body[i])
    /\ (req.kind = "get_project" /\ req.usable /\ HasSlug(project, req.arg)) =>
          /\ resp.status = 200
          /\ \E i \in 1..Len(project) : Normalized(project[i], resp.body)

\* C7 witness: the detail of a record that has none of the optional fields
C7_Witness ==
    /\ req.kind = "get_project" /\ req.arg = "legacy" /\ resp.status = 200
    /\ DOMAIN project[1] = {"_id", "title", "slug", "description"}
    /\ resp.body.featured = FALSE /\ resp.body.tags = <<>> /\ resp.body.impact = None

GetKinds == {"read_root", "test_database", "list_projects", "get_project", "list_posts", "get_post"}

\* C8: writes are confined by endpoint. A GET request leaves contactmessage
\* as it is and, when project and post both hold documents, leaves all three
\* collections as they are; POST /api/contact changes contactmessage only
\* and does not seed; project and post records appear only in a seeding read
\* of an empty collection, and no step removes or alters a stored record.
C8_WritesConfined ==
    [][ /\ IsPrefix(project, project') /\ IsPrefix(post, post')
        /\ IsPrefix(contactmessage, contactmessage')
        /\ (req'.kind \in GetKinds => contactmessage' = contactmessage)
        /\ ((req'.kind \in GetKinds /\ project # <<>> /\ post # <<>>) =>
               <<project, post, contactmessage>>' = <<project, post, contactmessage>>)
        /\ (req'.kind = "submit_contact" => (project' = project /\ post' = post))
        /\ (project' # project => (project = <<>> /\ req'.kind \in ReadKinds))
        /\ (post' # post => (post = <<>> /\ req'.kind \in ReadKinds))
        /\ (contactmessage' # contactmessage => req'.kind = "submit_contact")
      ]_vars

\* C8 witness: a read served from a seeded store that holds a contact message
C8_Witness ==
    /\ req.kind = "list_posts" /\ resp.status = 200
    /\ Len(contactmessage) = 1
    /\ Slugs(project) = SeedSlugs /\ Slugs(post) = PostSeedSlugs

\* C9: however read requests issued together against an empty store
\* interleave their store calls, once none is in progress the project
\* collection holds each of the three seed slugs exactly once and the post
\* collection holds the seed post exactly once.
C9_NoDoubleSeed ==
    (Quiescent /\ seedRuns >= 1) =>
        /\ \A i \in 1..Len(SeedSlugs) : Occurrences(project, SeedSlugs[i]) = 1
        /\ Occurrences(post, PostSeedSlugs[1]) = 1

\* C10: with store calls allowed to fail, whenever no request is in progress
\* the project collection is empty or holds all three seed records.
C10_SeedAllOrNothing ==
    Quiescent =>
        \/ project = <<>>
        \/ \A i \in 1..Len(SeedSlugs) : Occurrences(project, SeedSlugs[i]) >= 1

====
